---- MODULE Spec2Model ----
(***************************************************************************)
(* nSPOT: a DX-cluster feed bridged to a FlexRadio's spot commands.        *)
(* The model follows src/main.go lines 122-418 (the variant with the spot  *)
(* registry): the cluster reader with sendToFlex / addSpot / removeSpot /  *)
(* cleanupSpots, the radio drive loop, the console reader, the interrupt   *)
(* watcher and main's final wait.  The radio behind fc.SendAndWait is the  *)
(* environment: it keeps the set of live spots and answers each command.   *)
(*                                                                         *)
(* Text is a sequence of one-character strings.  A frequency is an integer *)
(* number of tenths of a kHz (the feed's texts carry at most one decimal). *)
(* Time is an integer number of ticks.                                     *)
(***************************************************************************)
EXTENDS Integers, Sequences, FiniteSets, TLC

\* ------------------------------------------------------------- bounds
\* Last tick of the clock.
MaxTime == 2
\* cfg.Timeout in ticks (flag "timeout").
Timeout == 1
\* The radio hands out the ids 1..MaxId; a 'spot add' past them fails.
MaxId == 2

\* getBand on its own is called this far, in tenths of a kHz, on either side
\* of every band edge.
BandReach == 10

\* ---------------------------------------------------------- constants
SpotNotFoundError == 1342177468

\* Error codes a CmdResult can carry besides 0 and SpotNotFoundError.
OtherErrors == {1342177281}

\* The placeholder "\x7f" of the strings.ReplaceAll calls.
DEL == "DEL"

\* ------------------------------------------------------------ text
K1ABC == <<"K", "1", "A", "B", "C">>
W1XYZ == <<"W", "1", "X", "Y", "Z">>
K2DEF == <<"K", "2", "D", "E", "F">>

Digits == {"0", "1", "2", "3", "4", "5", "6", "7", "8", "9"}

DigitVal(c) ==
  CASE c = "0" -> 0 [] c = "1" -> 1 [] c = "2" -> 2 [] c = "3" -> 3
    [] c = "4" -> 4 [] c = "5" -> 5 [] c = "6" -> 6 [] c = "7" -> 7
    [] c = "8" -> 8 [] c = "9" -> 9

\* strings.ReplaceAll(s, old, new) for a one-character old: a new string.
ReplaceAll(s, old, new) ==
  [i \in 1..Len(s) |-> IF s[i] = old THEN new ELSE s[i]]

\* A statement `strings.ReplaceAll(x, " ", "\x7f")` whose result is not
\* assigned: the replaced string is built and dropped, x keeps its value.
ReplaceAllStmt(x) ==
  LET dropped == ReplaceAll(x, " ", DEL) IN x

HasSpace(s) == \E i \in 1..Len(s) : s[i] = " "

RECURSIVE DecimalValue(_)
DecimalValue(s) ==
  IF Len(s) = 0 THEN 0
  ELSE 10 * DecimalValue(SubSeq(s, 1, Len(s) - 1)) + DigitVal(s[Len(s)])

\* ParseFloat with the error check lost: any text yields a number.
ParseFloatNoError(s) ==
  [err |-> FALSE, val |-> 10 * DecimalValue(SelectSeq(s, LAMBDA c : c \in Digits))]

\* strconv.ParseFloat on a text the spot pattern let through ([0-9.]+):
\* an error unless there is at most one "." and at least one digit.  The
\* value is in tenths of a kHz; digits past the first decimal are dropped.
ParseFloat(s) ==
  LET dots == {i \in 1..Len(s) : s[i] = "."}
      ok   == /\ Cardinality(dots) <= 1
              /\ \E i \in 1..Len(s) : s[i] \in Digits
              /\ \A i \in 1..Len(s) : s[i] \in Digits \cup {"."}
      dot  == IF dots = {} THEN Len(s) + 1 ELSE CHOOSE i \in dots : TRUE
      int  == SubSeq(s, 1, dot - 1)
      frac == SubSeq(s, dot + 1, Len(s))
  IN  IF ~ok THEN [err |-> TRUE, val |-> 0]
      ELSE [err |-> FALSE,
            val |-> 10 * DecimalValue(int)
                    + (IF Len(frac) = 0 THEN 0 ELSE DigitVal(frac[1]))]

\* ------------------------------------------------------------ bands
bandEdges == <<
  [minFreq |-> 0,       name |-> "LFMF"],
  [minFreq |-> 1800,    name |-> "160m"],
  [minFreq |-> 3500,    name |-> "80m"],
  [minFreq |-> 5000,    name |-> "60m"],
  [minFreq |-> 7000,    name |-> "40m"],
  [minFreq |-> 10000,   name |-> "30m"],
  [minFreq |-> 14000,   name |-> "20m"],
  [minFreq |-> 18000,   name |-> "17m"],
  [minFreq |-> 21000,   name |-> "15m"],
  [minFreq |-> 24890,   name |-> "12m"],
  [minFreq |-> 26000,   name |-> "11m"],
  [minFreq |-> 28000,   name |-> "10m"],
  [minFreq |-> 50000,   name |-> "6m"],
  [minFreq |-> 144000,  name |-> "2m"],
  [minFreq |-> 220000,  name |-> "125cm"],
  [minFreq |-> 420000,  name |-> "70cm"],
  [minFreq |-> 900000,  name |-> "900M"],
  [minFreq |-> 1240000, name |-> "1240M"],
  [minFreq |-> 2300000, name |-> "microwave"] >>

\* The loop with > for >=: an edge value falls into the band below.
RECURSIVE getBandFromStrict(_, _)
getBandFromStrict(i, freq) ==
  IF i < Len(bandEdges) /\ freq > 10 * bandEdges[i + 1].minFreq
  THEN getBandFromStrict(i + 1, freq)
  ELSE bandEdges[i].name

RECURSIVE getBandFrom(_, _)
getBandFrom(i, freq) ==
  IF i < Len(bandEdges) /\ freq >= 10 * bandEdges[i + 1].minFreq
  THEN getBandFrom(i + 1, freq)
  ELSE bandEdges[i].name

\* getBand(freq), freq in tenths of a kHz.
getBand(freq) == getBandFrom(1, freq)

\* fmt.Sprintf("%.0f", freqKhz): the nearest integer, a tie to the even one.
FormatKhz(freq) ==
  LET q == freq \div 10
      r == freq % 10
      n == IF r < 5 THEN q
           ELSE IF r > 5 THEN q + 1
           ELSE IF q % 2 = 0 THEN q ELSE q + 1
  IN  ToString(n)

\* ------------------------------------------------------- cluster lines
\* The groups of a line the spot pattern matched: m[1], m[3], m[5], m[7].
Line(spotter, freq, dx, comment) ==
  [spotter |-> spotter, freq |-> freq, dx |-> dx, comment |-> comment]

\* "DX de K1ABC: 14025.0 W1XYZ CQ CQ DX 1234Z"
LineCQ == Line(K1ABC, <<"1", "4", "0", "2", "5", ".", "0">>, W1XYZ,
               <<"C", "Q", " ", "C", "Q", " ", "D", "X">>)
\* "DX de K1ABC: 14030.0 W1XYZ QRT 1240Z"
LineQRT == Line(K1ABC, <<"1", "4", "0", "3", "0", ".", "0">>, W1XYZ, <<"Q", "R", "T">>)
\* "DX de W1XYZ: 7010.5 K2DEF UP 1241Z"
LineUP == Line(W1XYZ, <<"7", "0", "1", "0", ".", "5">>, K2DEF, <<"U", "P">>)
\* "DX de K1ABC: 1.2.3 W1XYZ CQ 1242Z": the pattern's [0-9.]+ lets it through.
LineBad == Line(K1ABC, <<"1", ".", "2", ".", "3">>, W1XYZ, <<"C", "Q">>)

\* "DX de K1ABC: 14030.0 W1XYZ CQ 1243Z": the same station, 5 kHz up.
LineCQ30 == Line(K1ABC, <<"1", "4", "0", "3", "0", ".", "0">>, W1XYZ, <<"C", "Q">>)
\* "DX de K1ABC: 14025.4 W1XYZ CQ 1244Z": within the same kHz as LineCQ.
LineNear == Line(K1ABC, <<"1", "4", "0", "2", "5", ".", "4">>, W1XYZ, <<"C", "Q">>)

\* W1XYZ's spot at 14030.0 with the comment "qrt", "QRTY", "SQRT", "NOW QRT?".
LineLower == Line(K1ABC, <<"1", "4", "0", "3", "0", ".", "0">>, W1XYZ, <<"q", "r", "t">>)
LineQRTY == Line(K1ABC, <<"1", "4", "0", "3", "0", ".", "0">>, W1XYZ, <<"Q", "R", "T", "Y">>)
LineSQRT == Line(K1ABC, <<"1", "4", "0", "3", "0", ".", "0">>, W1XYZ, <<"S", "Q", "R", "T">>)
LineNow == Line(K1ABC, <<"1", "4", "0", "3", "0", ".", "0">>, W1XYZ,
                <<"N", "O", "W", " ", "Q", "R", "T", "?">>)

SpotLines == {LineCQ, LineQRT, LineUP, LineBad}

NoLine == Line(<<>>, <<>>, <<>>, <<>>)

\* ---------------------------------------------------------- qrtPattern
WordChars ==
  Digits \cup {"_"} \cup
  {"A", "B", "C", "D", "E", "F", "G", "H", "I", "J", "K", "L", "M",
   "N", "O", "P", "Q", "R", "S", "T", "U", "V", "W", "X", "Y", "Z",
   "a", "b", "c", "d", "e", "f", "g", "h", "i", "j", "k", "l", "m",
   "n", "o", "p", "q", "r", "s", "t", "u", "v", "w", "x", "y", "z"}

\* The pattern without its two \b: the three letters anywhere.
qrtAnywhere(s) ==
  \E i \in 1..(Len(s) - 2) :
    s[i] \in {"Q", "q"} /\ s[i + 1] \in {"R", "r"} /\ s[i + 2] \in {"T", "t"}

\* qrtPattern.MatchString(s) for `\b(?i:QRT)\b`: the three letters in either
\* case, with no word character right before or right after them.
qrtPatternMatch(s) ==
  \E i \in 1..(Len(s) - 2) :
    /\ s[i] \in {"Q", "q"} /\ s[i + 1] \in {"R", "r"} /\ s[i + 2] \in {"T", "t"}
    /\ (i = 1 \/ s[i - 1] \notin WordChars)
    /\ (i + 2 = Len(s) \/ s[i + 3] \notin WordChars)

\* ------------------------------------------------------------ state
VARIABLES
  cfg,        \* the flags: [OnePerBand, QRT]
  now,        \* time.Now(), in ticks
  spotIds,    \* the registry: spotKey -> [id, expires]
  radio,      \* the radio's live spots: id -> [key it was added for, expires]
  nextId,     \* the id the radio gives its next spot
  pc,         \* the cluster reader's position
  m,          \* the matched groups of the line being handled
  remove,     \* the line's remove flag
  existed,    \* addSpot's local
  sp,         \* addSpot's / removeSpot's local: the entry looked up
  lineLog,    \* what handling the current line has done so far, in order
  chain,      \* key -> [id, adds]: the id the key's 'spot add' returned and the
              \* 'spot add's sent for it since, while every command for the
              \* key has succeeded and its entry was neither removed nor swept
  stale,      \* key -> the id removeSpot found stored, until the key's next
              \* spot that is no removal has been handled
  fcClosed,   \* the radio client is closed (or its connection lost)
  tcClosed,   \* the cluster socket is closed
  rlClosed,   \* the console is closed
  radioPc,    \* the radio drive flow's position
  consolePc,  \* the console reader's position
  sigPc,      \* the interrupt watcher's position
  mainPc,     \* main's position
  wg,         \* the WaitGroup's counter
  bandCall    \* the last call of getBand on its own: [freq, name]

vars == <<cfg, now, spotIds, radio, nextId, pc, m, remove, existed, sp, lineLog,
          chain, stale,
          fcClosed, tcClosed, rlClosed, radioPc, consolePc, sigPc, mainPc, wg,
          bandCall>>

readerVars == <<pc, m, remove, existed, sp, lineLog, chain, stale>>
flowVars == <<fcClosed, tcClosed, rlClosed, radioPc, consolePc, sigPc, mainPc, wg>>

NoSpot == [id |-> 0, expires |-> 0]

\* No call of getBand on its own yet.
NoCall == [freq |-> 0, name |-> ""]

\* The key with cfg.OnePerBand not looked at: always the rounded frequency.
spotKeyByFreq(c, line) ==
  [freq |-> FormatKhz(ParseFloat(line.freq).val), call |-> line.dx]

\* The key sendToFlex computes for a line whose frequency parsed.
spotKey(c, line) ==
  LET freqKhz == ParseFloat(line.freq).val
  IN  IF c.OnePerBand
      THEN [freq |-> getBand(freqKhz), call |-> line.dx]
      ELSE [freq |-> FormatKhz(freqKhz), call |-> line.dx]

\* The fields string of addSpot: what is interpolated into the command.
\* rx_freq is freqKhz/1000.0 printed with six decimals: here in Hz.
Fields(freqKhz, dxCall, spotCall, comment) ==
  [rx_freq |-> 100 * freqKhz, callsign |-> dxCall, spotter_callsign |-> spotCall,
   comment |-> comment, lifetime_seconds |-> Timeout]

NoFields ==
  [rx_freq |-> 0, callsign |-> <<>>, spotter_callsign |-> <<>>,
   comment |-> <<>>, lifetime_seconds |-> 0]

\* The fields addSpot sends for line: sendToFlex's locals after its four
\* ReplaceAll statements, handed to addSpot.
lineFields(line) ==
  LET spotCall == ReplaceAllStmt(line.spotter)
      freq     == ReplaceAllStmt(line.freq)
      dxCall   == ReplaceAllStmt(line.dx)
      comment  == ReplaceAllStmt(line.comment)
  IN  Fields(ParseFloat(freq).val, dxCall, spotCall, comment)

\* One entry of lineLog.  op is "echo", "add", "set", "remove", "store",
\* "delete" or "sweep".  A command ("add", "set", "remove") carries its id,
\* its fields and the CmdResult it got.
Step(op, key, id, fields, res) ==
  [op |-> op, key |-> key, id |-> id, fields |-> fields, res |-> res, gone |-> {}]

NoKey == [freq |-> "", call |-> <<>>]
NoRes == [Error |-> 0, Message |-> [num |-> FALSE, val |-> 0]]
\* A step of the program's own: gone is the set of keys it deleted.
Local(op, key, gone) ==
  [op |-> op, key |-> key, id |-> 0, fields |-> NoFields, res |-> NoRes, gone |-> gone]

IsRpc(e) == e.op \in {"add", "set", "remove"}
Rpcs(log) == SelectSeq(log, IsRpc)

\* ------------------------------------------------------------ radio
\* The radio's side of fc.SendAndWait: the answers it can give to a command
\* and what each does to its live spots.  A command can fail with some other
\* error, the radio's spots staying as they are; through a closed client it
\* can only fail.
Ok(id)   == [Error |-> 0, Message |-> [num |-> TRUE, val |-> id]]
OkText   == [Error |-> 0, Message |-> [num |-> FALSE, val |-> 0]]
NotFound == [Error |-> SpotNotFoundError, Message |-> [num |-> FALSE, val |-> 0]]
Failed   == {[Error |-> e, Message |-> [num |-> FALSE, val |-> 0]] : e \in OtherErrors}

Answer(res, r, n) == [res |-> res, radio |-> r, nextId |-> n]

Without(f, k) == [x \in DOMAIN f \ {k} |-> f[x]]

\* 'spot add <fields>': a new spot under the next id, whose number is the
\* message of the answer.
AddAnswers(key) ==
  {Answer(res, radio, nextId) : res \in Failed}
  \cup
  (IF fcClosed \/ nextId > MaxId THEN {}
   ELSE LET r == (nextId :> [key |-> key, expires |-> now + Timeout]) @@ radio
        IN  {Answer(Ok(nextId), r, nextId + 1)})

\* 'spot set <id> <fields>': refreshes a live spot; not-found for any other id.
SetAnswers(id) ==
  {Answer(res, radio, nextId) : res \in Failed}
  \cup
  (IF fcClosed THEN {}
   ELSE IF id \in DOMAIN radio
   THEN {Answer(OkText, [radio EXCEPT ![id].expires = now + Timeout], nextId)}
   ELSE {Answer(NotFound, radio, nextId)})

\* 'spot remove <id>': removes a live spot; not-found for any other id.
RemoveAnswers(id) ==
  {Answer(res, radio, nextId) : res \in Failed}
  \cup
  (IF fcClosed THEN {}
   ELSE IF id \in DOMAIN radio
   THEN {Answer(OkText, Without(radio, id), nextId)}
   ELSE {Answer(NotFound, radio, nextId)})

\* The radio drops a spot before its lifetime is over (its operator cleared
\* it, or the radio counts the lifetime from an earlier moment).
RadioExpire ==
  /\ mainPc # "exited"
  /\ \E id \in DOMAIN radio : radio' = Without(radio, id)
  /\ UNCHANGED <<cfg, now, spotIds, nextId, readerVars, flowVars, bandCall>>

\* The clock advances.  The radio drops the spots whose lifetime_seconds are
\* over: it starts counting when it gets the command, which is no later than
\* the time.Now() the program reads after the answer.
Tick ==
  /\ mainPc # "exited"
  /\ now < MaxTime
  /\ now' = now + 1
  /\ radio' = [id \in {i \in DOMAIN radio : radio[i].expires > now'} |-> radio[id]]
  /\ UNCHANGED <<cfg, spotIds, nextId, readerVars, flowVars, bandCall>>

\* --------------------------------------------------------- registry
\* strconv.Atoi(res.Message)
Atoi(msg) == [err |-> ~msg.num, val |-> msg.val]

\* addSpot, line 274: whether 'spot add' is sent (after the 'spot set', if any).
AlwaysAdd(ex, res) == TRUE
NeedsAdd(ex, res) == ~ex \/ res.Error = SpotNotFoundError

\* addSpot, lines 278-291, after its last command answered res at time t:
\* the registry it leaves.
addSpotStoreAnyway(ids, key, ex, s, res, t) ==
  (key :> [id |-> IF ex THEN s.id ELSE Atoi(res.Message).val,
           expires |-> t + Timeout]) @@ ids
addSpotStore(ids, key, ex, s, res, t) ==
  IF res.Error # 0 THEN ids
  ELSE IF ~ex /\ Atoi(res.Message).err THEN ids
  ELSE LET id == IF ~ex THEN Atoi(res.Message).val ELSE s.id
       IN  (key :> [id |-> id, expires |-> t + Timeout]) @@ ids

\* removeSpot, line 302: the registry it leaves, whatever res was.
deleteIfOk(ids, key, res) == IF res.Error = 0 THEN Without(ids, key) ELSE ids
deleteAll(ids, key, res) == [k \in {} |-> NoSpot]
removeSpotDelete(ids, key, res) == Without(ids, key)

\* cleanupSpots, line 308: v.expires.Before(now)
expiredLate(v, t) == v.expires + 1 < t
expiredAtOrBefore(v, t) == v.expires <= t
expired(v, t) == v.expires < t

\* A sweep that empties the registry.
cleanupAll(ids, t) == [k \in {} |-> NoSpot]

cleanupSpots(ids, t) ==
  [k \in {x \in DOMAIN ids : ~expired(ids[x], t)} |-> ids[k]]

\* A lookup that finds nothing, whatever the registry holds.
MapGetMiss(ids, key) == [v |-> NoSpot, ok |-> FALSE]

\* sp, existed := spotIds[key] (addSpot) and spot, ok := spotIds[key]
\* (removeSpot): the entry and whether there is one; its expires is not
\* looked at.
MapGet(ids, key) ==
  IF key \in DOMAIN ids THEN [v |-> ids[key], ok |-> TRUE]
  ELSE [v |-> NoSpot, ok |-> FALSE]

\* ---------------------------------------------------- cluster reader
Alive == mainPc # "exited"

\* A reader that takes its next line while the line in hand still awaits its
\* cleanupSpots.
ReadSpotEarly(lines) ==
  /\ Alive /\ pc \in {"scan", "cleanup"} /\ ~tcClosed
  /\ \E line \in lines :
       /\ m' = line
       /\ remove' = (cfg.QRT /\ qrtPatternMatch(line.comment))
       /\ lineLog' = IF ParseFloat(line.freq).err THEN <<>>
                     ELSE <<Local("echo", NoKey, {})>>
  /\ pc' = "send"
  /\ UNCHANGED <<cfg, now, spotIds, radio, nextId, existed, sp, chain, stale, flowVars,
                 bandCall>>

\* lines.Scan() gives a line the spot pattern matches: remove is computed,
\* logToConsole echoes it (nothing when the frequency does not parse).
ReadSpotFrom(lines) ==
  /\ Alive /\ pc = "scan" /\ ~tcClosed
  /\ \E line \in lines :
       /\ m' = line
       /\ remove' = (cfg.QRT /\ qrtPatternMatch(line.comment))
       /\ lineLog' = IF ParseFloat(line.freq).err THEN <<>>
                     ELSE <<Local("echo", NoKey, {})>>
  /\ pc' = "send"
  /\ UNCHANGED <<cfg, now, spotIds, radio, nextId, existed, sp, chain, stale, flowVars, bandCall>>

\* lines.Scan() gives any other line: a prompt change or a plain echo.
ReadOther ==
  /\ Alive /\ pc = "scan" /\ ~tcClosed
  /\ m' = NoLine /\ remove' = FALSE /\ lineLog' = <<>>
  /\ UNCHANGED <<cfg, now, spotIds, radio, nextId, pc, existed, sp, chain, stale,
                 flowVars, bandCall>>

\* lines.Scan() returns false (the socket was closed here, or by the
\* cluster): the loop ends, its locals with it, and the flow closes the
\* radio client.
ReaderExit ==
  /\ Alive /\ pc = "scan"
  /\ pc' = "done"
  /\ m' = NoLine /\ remove' = FALSE /\ existed' = FALSE /\ sp' = NoSpot
  /\ lineLog' = <<>>
  /\ fcClosed' = TRUE
  /\ UNCHANGED <<cfg, now, spotIds, radio, nextId, chain, stale,
                 tcClosed, rlClosed, radioPc, consolePc, sigPc, mainPc, wg, bandCall>>

\* sendToFlex without its `if remove`: every line goes to addSpot.
SendToFlexAddsAlways ==
  /\ Alive /\ pc = "send"
  /\ IF ParseFloat(m.freq).err
     THEN /\ pc' = "cleanup"
          /\ UNCHANGED <<existed, sp>>
     ELSE LET key == spotKey(cfg, m)
          IN  /\ sp' = MapGet(spotIds, key).v
              /\ existed' = MapGet(spotIds, key).ok
              /\ pc' = IF existed' THEN "rpcSet" ELSE "rpcAdd"
  /\ UNCHANGED <<cfg, now, spotIds, radio, nextId, m, remove, lineLog, chain, stale,
                 flowVars, bandCall>>

\* sendToFlex up to its first command: the parse, the key, and the lookup of
\* removeSpot or addSpot.
SendToFlex ==
  /\ Alive /\ pc = "send"
  /\ IF ParseFloat(m.freq).err
     THEN /\ pc' = "cleanup"
          /\ UNCHANGED <<spotIds, existed, sp, lineLog>>
     ELSE LET key == spotKey(cfg, m)
              ok  == MapGet(spotIds, key).ok
          IN  /\ sp' = MapGet(spotIds, key).v
              /\ IF remove
                 THEN /\ UNCHANGED existed
                      /\ IF ok
                         THEN /\ pc' = "rpcRemove"
                              /\ UNCHANGED <<spotIds, lineLog>>
                         ELSE /\ pc' = "cleanup"
                              /\ spotIds' = Without(spotIds, key)
                              /\ lineLog' = Append(lineLog, Local("delete", key, {}))
                 ELSE /\ existed' = ok
                      /\ pc' = IF ok THEN "rpcSet" ELSE "rpcAdd"
                      /\ UNCHANGED <<spotIds, lineLog>>
  /\ UNCHANGED <<cfg, now, radio, nextId, m, remove, chain, stale, flowVars, bandCall>>

\* chain after a 'spot add' for key answered res: the key's chain starts with
\* an add that is the spot's first command and returns an id.
ChainAfterAdd(key, res) ==
  IF key \in DOMAIN chain
  THEN IF res.Error = 0 /\ res.Message.num
       THEN [chain EXCEPT ![key].adds = @ + 1]
       ELSE Without(chain, key)
  ELSE IF res.Error = 0 /\ res.Message.num /\ Rpcs(lineLog) = <<>>
       THEN (key :> [id |-> res.Message.val, adds |-> 1]) @@ chain
       ELSE chain

\* addSpot's end, lines 278-291, with res the answer to its last command.
AddSpotEnd(key, res, log) ==
  LET ids == addSpotStore(spotIds, key, existed, sp, res, now)
  IN  /\ spotIds' = ids
      /\ lineLog' = IF ids = spotIds THEN log ELSE Append(log, Local("store", key, {}))
      /\ pc' = "cleanup"

\* addSpot, line 272: 'spot set' with the stored id, and its answer.
RpcSet ==
  /\ Alive /\ pc = "rpcSet"
  /\ LET key == spotKey(cfg, m) IN
     \E a \in SetAnswers(sp.id) :
       LET log == Append(lineLog, Step("set", key, sp.id, lineFields(m), a.res))
       IN  /\ radio' = a.radio /\ nextId' = a.nextId
           /\ chain' = IF a.res.Error = 0 THEN chain ELSE Without(chain, key)
           /\ IF NeedsAdd(existed, a.res)
              THEN /\ pc' = "rpcAdd" /\ lineLog' = log /\ UNCHANGED spotIds
              ELSE AddSpotEnd(key, a.res, log)
  /\ UNCHANGED <<cfg, now, m, remove, existed, sp, stale, flowVars, bandCall>>

\* addSpot, line 275: 'spot add', and its answer.
RpcAdd ==
  /\ Alive /\ pc = "rpcAdd"
  /\ LET key == spotKey(cfg, m) IN
     \E a \in AddAnswers(key) :
       /\ radio' = a.radio /\ nextId' = a.nextId
       /\ chain' = ChainAfterAdd(key, a.res)
       /\ AddSpotEnd(key, a.res,
                     Append(lineLog, Step("add", key, 0, lineFields(m), a.res)))
  /\ UNCHANGED <<cfg, now, m, remove, existed, sp, stale, flowVars, bandCall>>

\* removeSpot, lines 297-302: 'spot remove' with the stored id, its answer,
\* and the delete.
RpcRemove ==
  /\ Alive /\ pc = "rpcRemove"
  /\ LET key == spotKey(cfg, m) IN
     \E a \in RemoveAnswers(sp.id) :
       /\ radio' = a.radio /\ nextId' = a.nextId
       /\ spotIds' = removeSpotDelete(spotIds, key, a.res)
       /\ chain' = Without(chain, key)
       /\ stale' = (key :> sp.id) @@ stale
       /\ lineLog' = Append(Append(lineLog, Step("remove", key, sp.id, NoFields, a.res)),
                            Local("delete", key, DOMAIN spotIds \ DOMAIN spotIds'))
  /\ pc' = "cleanup"
  /\ UNCHANGED <<cfg, now, m, remove, existed, sp, flowVars, bandCall>>

\* cleanupSpots(), then back to lines.Scan().
CleanupSpots ==
  /\ Alive /\ pc = "cleanup"
  /\ spotIds' = cleanupSpots(spotIds, now)
  /\ lineLog' = Append(lineLog, Local("sweep", NoKey, DOMAIN spotIds \ DOMAIN spotIds'))
  /\ pc' = "scan"
  /\ chain' = [k \in DOMAIN chain \cap DOMAIN spotIds' |-> chain[k]]
  /\ stale' = IF ~remove /\ ~ParseFloat(m.freq).err
              THEN Without(stale, spotKey(cfg, m)) ELSE stale
  /\ UNCHANGED <<cfg, now, radio, nextId, m, remove, existed, sp, flowVars, bandCall>>

\* ------------------------------------------------------- other flows
regVars == <<cfg, now, spotIds, radio, nextId, readerVars>>

\* The interrupt watcher: SIGINT arrives, fc.Close().
Interrupt ==
  /\ Alive /\ sigPc = "wait"
  /\ sigPc' = "done" /\ fcClosed' = TRUE
  /\ UNCHANGED <<regVars, bandCall, tcClosed, rlClosed, radioPc, consolePc, mainPc, wg>>

\* fc.Run() returns: the client was closed, or the radio's connection ended.
RadioRunReturns ==
  /\ Alive /\ radioPc = "run"
  /\ radioPc' = "closeTc" /\ fcClosed' = TRUE
  /\ UNCHANGED <<regVars, bandCall, tcClosed, rlClosed, consolePc, sigPc, mainPc, wg>>

RadioCloseTc ==
  /\ Alive /\ radioPc = "closeTc"
  /\ radioPc' = "closeRl" /\ tcClosed' = TRUE
  /\ UNCHANGED <<regVars, bandCall, fcClosed, rlClosed, consolePc, sigPc, mainPc, wg>>

RadioCloseRl ==
  /\ Alive /\ radioPc = "closeRl"
  /\ radioPc' = "wgDone" /\ rlClosed' = TRUE
  /\ UNCHANGED <<regVars, bandCall, fcClosed, tcClosed, consolePc, sigPc, mainPc, wg>>

RadioWgDone ==
  /\ Alive /\ radioPc = "wgDone"
  /\ radioPc' = "done" /\ wg' = wg - 1
  /\ UNCHANGED <<regVars, bandCall, fcClosed, tcClosed, rlClosed, consolePc, sigPc, mainPc>>

\* A console line that empties the registry from the console reader's flow.
ConsoleLineClears ==
  /\ Alive /\ consolePc = "read" /\ ~rlClosed
  /\ spotIds' = [k \in {} |-> NoSpot]
  /\ UNCHANGED <<cfg, now, radio, nextId, readerVars, flowVars, bandCall>>

\* rl.Readline() gives a line: forwarded to the cluster when not empty.
ConsoleLine ==
  /\ Alive /\ consolePc = "read" /\ ~rlClosed
  /\ UNCHANGED vars

\* rl.Readline() fails (end of input, interrupt, console closed): fc.Close().
ConsoleExit ==
  /\ Alive /\ consolePc = "read"
  /\ consolePc' = "done" /\ fcClosed' = TRUE
  /\ UNCHANGED <<regVars, bandCall, tcClosed, rlClosed, radioPc, sigPc, mainPc, wg>>

\* main, lines 412-415: the login line, when a callsign is configured.
MainLogin ==
  /\ mainPc = "login"
  /\ mainPc' = "wait"
  /\ UNCHANGED <<regVars, bandCall, fcClosed, tcClosed, rlClosed, radioPc, consolePc, sigPc, wg>>

\* wg.Wait() returns: main returns and the process ends.
NoWait(n) == TRUE
WaitForever(n) == FALSE
WaitReturns(n) == n = 0

MainExit ==
  /\ mainPc = "wait" /\ WaitReturns(wg)
  /\ mainPc' = "exited"
  /\ UNCHANGED <<regVars, bandCall, fcClosed, tcClosed, rlClosed, radioPc, consolePc, sigPc, wg>>

\* main, lines 332-340: the two dials.  A failed one is fatal: log.Fatal ends
\* the process there.
MainDial ==
  /\ mainPc = "init"
  /\ mainPc' \in {"connected", "exited"}
  /\ UNCHANGED <<regVars, bandCall, fcClosed, tcClosed, rlClosed, radioPc, consolePc, sigPc, wg>>

\* main, lines 342-346: readline.New, fatal too when it fails.
MainConsole ==
  /\ mainPc = "connected"
  /\ mainPc' \in {"start", "exited"}
  /\ UNCHANGED <<regVars, bandCall, fcClosed, tcClosed, rlClosed, radioPc, consolePc, sigPc, wg>>

\* main, lines 354-410: wg.Add(1) and the four go statements.
MainStartFlows ==
  /\ mainPc = "start"
  /\ mainPc' = "login"
  /\ wg' = wg + 1
  /\ sigPc' = "wait" /\ radioPc' = "run" /\ pc' = "scan" /\ consolePc' = "read"
  /\ UNCHANGED <<cfg, now, spotIds, radio, nextId, m, remove, existed, sp, lineLog,
                 chain, stale, fcClosed, tcClosed, rlClosed, bandCall>>

\* ------------------------------------------------------ specification
\* The state once main has started its four flows (lines 354-410).
InitWith(flags) ==
  /\ cfg \in flags
  /\ now = 0
  /\ spotIds = [k \in {} |-> NoSpot]
  /\ radio = [i \in {} |-> [key |-> NoKey, expires |-> 0]]
  /\ nextId = 1
  /\ pc = "scan" /\ m = NoLine /\ remove = FALSE /\ existed = FALSE /\ sp = NoSpot
  /\ lineLog = <<>>
  /\ chain = [k \in {} |-> [id |-> 0, adds |-> 0]]
  /\ stale = [k \in {} |-> 0]
  /\ fcClosed = FALSE /\ tcClosed = FALSE /\ rlClosed = FALSE
  /\ radioPc = "run" /\ consolePc = "read" /\ sigPc = "wait" /\ mainPc = "login"
  /\ wg = 1
  /\ bandCall = NoCall

\* The cluster reader against the radio and the clock, with QRT removal on
\* (the flag's default) and one-per-band on or off.  The other flows act on
\* the reader only by closing the socket (no further line), by closing the
\* client (a command then fails, as any command may) and by ending the
\* process (nothing further happens), so what the registry and the radio go
\* through is all here.
Init == InitWith([OnePerBand : BOOLEAN, QRT : {TRUE}])

ReadSpot == ReadSpotFrom(SpotLines)

Next ==
  \/ Tick \/ RadioExpire
  \/ ReadSpot \/ ReadOther \/ ReaderExit \/ SendToFlex
  \/ RpcSet \/ RpcAdd \/ RpcRemove \/ CleanupSpots

Spec == Init /\ [][Next]_vars

\* All the flows together, the feed being spots and QRTs of one station.
InitFlows == InitWith({[OnePerBand |-> TRUE, QRT |-> TRUE]})

ReadSpotFlows == ReadSpotFrom({LineCQ, LineQRT})

NextFlows ==
  \/ Tick \/ RadioExpire
  \/ ReadSpotFlows \/ ReadOther \/ ReaderExit \/ SendToFlex
  \/ RpcSet \/ RpcAdd \/ RpcRemove \/ CleanupSpots
  \/ Interrupt
  \/ RadioRunReturns \/ RadioCloseTc \/ RadioCloseRl \/ RadioWgDone
  \/ ConsoleLine \/ ConsoleExit
  \/ MainLogin \/ MainExit

SpecFlows == InitFlows /\ [][NextFlows]_vars

\* The process from main's start, under the scheduling the Go runtime and
\* the libraries give: main and every started flow take their next step when
\* it stays possible; fc.Run() returns once the client is closed, Scan() once
\* the socket is closed, Readline() once the console is closed.  Nothing
\* obliges the cluster, the operator or the radio to end anything.  The clock
\* stands still here and the radio keeps its spots: they decide which entries
\* the registry holds, never whether a flow can take its next step.
InitLive ==
  /\ cfg = [OnePerBand |-> TRUE, QRT |-> TRUE]
  /\ now = 0
  /\ spotIds = [k \in {} |-> NoSpot]
  /\ radio = [i \in {} |-> [key |-> NoKey, expires |-> 0]]
  /\ nextId = 1
  /\ pc = "idle" /\ m = NoLine /\ remove = FALSE /\ existed = FALSE /\ sp = NoSpot
  /\ lineLog = <<>>
  /\ chain = [k \in {} |-> [id |-> 0, adds |-> 0]]
  /\ stale = [k \in {} |-> 0]
  /\ fcClosed = FALSE /\ tcClosed = FALSE /\ rlClosed = FALSE
  /\ radioPc = "idle" /\ consolePc = "idle" /\ sigPc = "idle" /\ mainPc = "init"
  /\ wg = 0
  /\ bandCall = NoCall

NextLive ==
  \/ MainDial \/ MainConsole \/ MainStartFlows
  \/ ReadSpotFlows \/ ReadOther \/ ReaderExit \/ SendToFlex
  \/ RpcSet \/ RpcAdd \/ RpcRemove \/ CleanupSpots
  \/ Interrupt
  \/ RadioRunReturns \/ RadioCloseTc \/ RadioCloseRl \/ RadioWgDone
  \/ ConsoleLine \/ ConsoleExit
  \/ MainLogin \/ MainExit

\* The steps each flow takes when it can: main's after the flows are started;
\* the radio drive flow's, fc.Run() returning once the client is closed; the
\* cluster reader's, a line in hand being handled to its end and Scan()
\* returning false once the socket is closed; the console reader's,
\* Readline() failing once the console is closed.
MainStep == MainLogin \/ MainExit
RadioStep ==
  \/ (fcClosed /\ RadioRunReturns)
  \/ RadioCloseTc \/ RadioCloseRl \/ RadioWgDone
ReaderStep ==
  \/ SendToFlex \/ RpcSet \/ RpcAdd \/ RpcRemove \/ CleanupSpots
  \/ (tcClosed /\ ReaderExit)
ConsoleStep == rlClosed /\ ConsoleExit

\* ENABLED <<ReaderStep>>_vars: a line is in hand (each of its steps can be
\* taken and moves pc), or Scan() is pending on a closed socket.
ReaderCanStep ==
  Alive /\ (pc \in {"send", "rpcSet", "rpcAdd", "rpcRemove", "cleanup"}
              \/ (pc = "scan" /\ tcClosed))

\* Weak fairness of the four flows' steps; the reader's is WF_vars(ReaderStep)
\* with its ENABLED written as ReaderCanStep.
Fairness ==
  /\ WF_vars(MainStep) /\ WF_vars(RadioStep) /\ WF_vars(ConsoleStep)
  /\ ([]<>(~ReaderCanStep) \/ []<><<ReaderStep>>_vars)

SpecLive == InitLive /\ [][NextLive]_vars /\ Fairness

\* getBand on its own, called on the frequencies around every band edge
\* (those below the first edge are negative).
BandInputs ==
  {10 * bandEdges[i].minFreq + d : i \in 1..Len(bandEdges), d \in (0 - BandReach)..BandReach}

GetBand ==
  /\ \E freq \in BandInputs : bandCall' = [freq |-> freq, name |-> getBand(freq)]
  /\ UNCHANGED <<regVars, flowVars>>

InitBand == InitWith({[OnePerBand |-> TRUE, QRT |-> TRUE]})

NextBand == GetBand

SpecBand == InitBand /\ [][NextBand]_vars

\* The cluster reader fed with one station's spots on three frequencies of
\* one band, two of them within one kHz, one-per-band on or off.
KeyLines == {LineCQ, LineNear, LineCQ30}

ReadSpotKey == ReadSpotFrom(KeyLines)

NextKey ==
  \/ Tick \/ RadioExpire
  \/ ReadSpotKey \/ ReadOther \/ ReaderExit \/ SendToFlex
  \/ RpcSet \/ RpcAdd \/ CleanupSpots

SpecKey == Init /\ [][NextKey]_vars

\* The cluster reader fed with one station's spots whose comments hold QRT as
\* a word, within a longer word, in either case, or not at all, the QRT flag
\* on or off.
QrtLines == {LineCQ, LineQRT, LineLower, LineQRTY, LineSQRT, LineNow}

InitQrt == InitWith([OnePerBand : {TRUE}, QRT : BOOLEAN])

ReadSpotQrt == ReadSpotFrom(QrtLines)

NextQrt ==
  \/ Tick \/ RadioExpire
  \/ ReadSpotQrt \/ ReadOther \/ ReaderExit \/ SendToFlex
  \/ RpcSet \/ RpcAdd \/ RpcRemove \/ CleanupSpots

SpecQrt == InitQrt /\ [][NextQrt]_vars

\* ------------------------------------------------------------ claims
\* The line in hand is a spot whose frequency parsed, and its key.
Parsed == m # NoLine /\ ~ParseFloat(m.freq).err
lineKey == spotKey(cfg, m)
lineRpcs == Rpcs(lineLog)
Last(q) == q[Len(q)]
IsOk(res) == res.Error = 0
IsFailed(res) == res.Error # 0 /\ res.Error # SpotNotFoundError

\* C1: while every command for a key succeeds and its entry is neither
\* removed nor swept, one 'spot add' is sent for the key, by its first spot;
\* every later spot that is no removal sends exactly one command, a 'spot
\* set' carrying the id that add returned.
C1_Dedup ==
  /\ \A k \in DOMAIN chain : chain[k].adds = 1
  /\ (pc = "cleanup" /\ Parsed /\ ~remove /\ lineKey \in DOMAIN chain) =>
       /\ Len(lineRpcs) = 1
       /\ \/ lineRpcs[1].op = "add" /\ lineRpcs[1].res = Ok(chain[lineKey].id)
          \/ lineRpcs[1].op = "set" /\ lineRpcs[1].id = chain[lineKey].id

\* A later spot of a key has been answered by a successful 'spot set' with
\* the id of the key's add.
C1_Witness ==
  /\ pc = "cleanup" /\ Parsed /\ ~remove /\ lineKey \in DOMAIN chain
  /\ lineRpcs[1].op = "set" /\ IsOk(lineRpcs[1].res)
  /\ lineRpcs[1].id = chain[lineKey].id

\* addSpot has ended after a 'spot set' answered spot-not-found and the
\* 'spot add' that followed it returned an id.
FallbackAdded ==
  /\ pc = "cleanup" /\ Parsed /\ ~remove /\ Len(lineRpcs) = 2
  /\ lineRpcs[1].op = "set" /\ lineRpcs[1].res.Error = SpotNotFoundError
  /\ lineRpcs[2].op = "add" /\ IsOk(lineRpcs[2].res) /\ lineRpcs[2].res.Message.num

\* C2: after a 'spot set' answered spot-not-found, a 'spot add' for the same
\* key follows at once, and when it succeeds the key's entry holds the id
\* that add returned.
C2_FallbackStoresNewId ==
  /\ (pc = "rpcAdd" /\ Len(lineRpcs) = 1) =>
       /\ lineRpcs[1].op = "set" /\ lineRpcs[1].key = lineKey
       /\ lineRpcs[1].res.Error = SpotNotFoundError
  /\ FallbackAdded =>
       lineKey \in DOMAIN spotIds /\ spotIds[lineKey].id = lineRpcs[2].res.Message.val

\* C3: the radio holds at most one live spot that the program added for a
\* key (the registry, a map, holds at most one entry per key).
C3_OneLiveSpotPerKey ==
  \A i, j \in DOMAIN radio : radio[i].key = radio[j].key => i = j

\* A spot that is no removal is being handled for k: addSpot is at a command
\* or has ended.
Respotting(k) ==
  /\ pc \in {"rpcSet", "rpcAdd", "cleanup"}
  /\ Parsed /\ ~remove /\ lineKey = k

\* C4: once removeSpot has run for a key with an entry, the key has no entry
\* until its next spot that is no removal, and that spot sends one command,
\* a 'spot add' (whose id is a new one), never a 'spot set' with the id
\* stored before the removal.
C4_RemoveThenRespot ==
  \A k \in DOMAIN stale :
    IF Respotting(k)
    THEN /\ pc # "rpcSet"
         /\ \A i \in 1..Len(lineRpcs) :
              /\ lineRpcs[i].op = "add"
              /\ (IsOk(lineRpcs[i].res) /\ lineRpcs[i].res.Message.num)
                   => lineRpcs[i].res.Message.val # stale[k]
         /\ pc = "cleanup" => Len(lineRpcs) = 1
    ELSE k \notin DOMAIN spotIds

\* The spot after a removal has been handled: its 'spot add' gave a new id,
\* which the registry now holds.
C4_Witness ==
  /\ pc = "cleanup" /\ Parsed /\ ~remove /\ lineKey \in DOMAIN stale
  /\ Len(lineRpcs) = 1 /\ lineRpcs[1].op = "add" /\ IsOk(lineRpcs[1].res)
  /\ lineKey \in DOMAIN spotIds /\ spotIds[lineKey].id # stale[lineKey]

\* C5: removeSpot on a key with an entry sends exactly one command, 'spot
\* remove' with the stored id, and whatever the answer the key's entry is
\* gone and every other entry is as it was.
C5_RemoveDeletes ==
  [][(pc = "rpcRemove" /\ pc' # "rpcRemove") =>
       /\ lineKey \in DOMAIN spotIds
       /\ Rpcs(lineLog') = <<Step("remove", lineKey, spotIds[lineKey].id, NoFields,
                                  Last(Rpcs(lineLog')).res)>>
       /\ spotIds' = Without(spotIds, lineKey)]_vars

\* removeSpot has dropped an entry though its 'spot remove' failed, and
\* another key's entry is still there.
C5_Witness ==
  /\ pc = "cleanup" /\ Parsed /\ remove
  /\ Len(lineRpcs) = 1 /\ lineRpcs[1].op = "remove" /\ IsFailed(lineRpcs[1].res)
  /\ lineKey \notin DOMAIN spotIds /\ DOMAIN spotIds # {}

\* C6: cleanupSpots leaves no entry whose expires is earlier than the time
\* it ran at, whatever the line's commands were answered.
C6_SweepRemovesExpired ==
  [][(pc = "cleanup" /\ pc' # "cleanup") =>
       \A k \in DOMAIN spotIds :
         spotIds[k].expires < now => k \notin DOMAIN spotIds']_vars

\* A sweep has deleted an entry at the end of a line whose command failed.
C6_Witness ==
  /\ pc = "scan" /\ lineLog # <<>> /\ Last(lineLog).op = "sweep"
  /\ Last(lineLog).gone # {}
  /\ \E i \in 1..Len(lineRpcs) : IsFailed(lineRpcs[i].res)

\* C7: when a 'spot set' or 'spot add' of addSpot fails with a code other
\* than spot-not-found, addSpot ends there with the registry as it was: no
\* 'spot add' after the failed 'spot set', no entry from the failed add.
C7_FailedRpcLeavesRegistry ==
  [][(pc \in {"rpcSet", "rpcAdd"} /\ lineLog' # lineLog
        /\ IsFailed(Last(Rpcs(lineLog')).res)) =>
       /\ spotIds' = spotIds
       /\ pc' = "cleanup"
       /\ Len(Rpcs(lineLog')) = Len(lineRpcs) + 1]_vars

\* A 'spot set' has failed and addSpot ended with the entry still there.
C7_Witness ==
  /\ pc = "cleanup" /\ Parsed /\ ~remove
  /\ Len(lineRpcs) = 1 /\ lineRpcs[1].op = "set" /\ IsFailed(lineRpcs[1].res)
  /\ lineKey \in DOMAIN spotIds /\ spotIds[lineKey] = sp

\* The line in hand matched the pattern with a frequency that is no number.
BadLine == m = LineBad /\ pc \in {"send", "cleanup"}

\* C8 as stated: handling a line whose frequency does not parse sends no
\* command and leaves the registry as it was.
C8_BadLineLeavesRegistry ==
  [][BadLine => (Rpcs(lineLog') = <<>> /\ spotIds' = spotIds)]_vars

\* C8, amended: handling a line whose frequency does not parse sends no
\* command and sendToFlex leaves the registry as it was; the cleanupSpots
\* that follows deletes the entries that expired before now, and only them.
C8_BadLineOnlySweeps ==
  [][BadLine =>
       /\ Rpcs(lineLog') = <<>>
       /\ pc = "send" => spotIds' = spotIds
       /\ \A k \in DOMAIN spotIds' : k \in DOMAIN spotIds /\ spotIds'[k] = spotIds[k]
       /\ \A k \in DOMAIN spotIds \ DOMAIN spotIds' : spotIds[k].expires < now]_vars

\* A line whose frequency did not parse has been handled, and its sweep
\* deleted an entry.
C8_Witness ==
  /\ pc = "scan" /\ m = LineBad /\ lineLog # <<>>
  /\ Last(lineLog).op = "sweep" /\ Last(lineLog).gone # {}

\* C9: no field of a 'spot add' or 'spot set' command holds a space.
C9_NoSpaceInFields ==
  \A i \in 1..Len(lineRpcs) :
    lineRpcs[i].op \in {"add", "set"} =>
      /\ ~HasSpace(lineRpcs[i].fields.callsign)
      /\ ~HasSpace(lineRpcs[i].fields.spotter_callsign)
      /\ ~HasSpace(lineRpcs[i].fields.comment)

\* C10 as stated: main has not returned from wg.Wait() while the cluster
\* reader, the radio drive loop or the console reader is still running.
C10_ExitAfterAllFlows ==
  mainPc = "exited" => (pc = "done" /\ radioPc = "done" /\ consolePc = "done")

\* C10, amended: main has not returned from wg.Wait() before the radio drive
\* flow has ended, with the client, the socket and the console closed.
C10_ExitAfterRadioFlow ==
  mainPc = "exited" => (radioPc = "done" /\ fcClosed /\ tcClosed /\ rlClosed)

\* main has returned while the cluster reader waits for a command's answer
\* and the console reader is still in its loop.
C10_Witness ==
  /\ mainPc = "exited" /\ radioPc = "done"
  /\ pc \in {"rpcSet", "rpcAdd", "rpcRemove"} /\ consolePc = "read"

\* The process-level states.  A terminal condition: the cluster reader's
\* loop has ended, the console reader's has, fc.Run() has returned, or the
\* interrupt arrived.
Terminal ==
  pc = "done" \/ consolePc = "done" \/ radioPc \in {"closeTc", "closeRl", "wgDone", "done"}
    \/ sigPc = "done"

Phase ==
  CASE mainPc = "exited" -> "TERMINATED"
    [] mainPc = "init" -> "INIT"
    [] mainPc \in {"connected", "start"} -> "CONNECTED"
    [] mainPc \in {"login", "wait"} /\ Terminal -> "SHUTTING_DOWN"
    [] mainPc \in {"login", "wait"} /\ ~Terminal -> "RUNNING"

PhaseOrder == <<"INIT", "CONNECTED", "RUNNING", "SHUTTING_DOWN", "TERMINATED">>
Rank(p) == CHOOSE i \in 1..Len(PhaseOrder) : PhaseOrder[i] = p

Terminated == mainPc = "exited" /\ fcClosed /\ tcClosed /\ rlClosed

\* C11 as stated: once a terminal condition has occurred, the connections
\* get closed, every flow with a loop leaves it and the process reaches
\* TERMINATED; the process states are passed in their order only.
C11_CascadeEveryFlowExits ==
  /\ Terminal ~> (Terminated /\ pc = "done" /\ consolePc = "done" /\ radioPc = "done")
  /\ [][Rank(Phase') >= Rank(Phase)]_vars

\* C11, amended: once a terminal condition has occurred, the client, the
\* socket and the console get closed, the radio drive flow ends and the
\* process reaches TERMINATED (the readers may still be in their loops then);
\* the process states are passed in their order only, and RUNNING is never
\* left for TERMINATED directly.
C11_CascadeTerminates ==
  /\ Terminal ~> (Terminated /\ radioPc = "done")
  /\ [][/\ Rank(Phase') >= Rank(Phase)
        /\ Phase = "RUNNING" => Phase' \in {"RUNNING", "SHUTTING_DOWN"}]_vars

\* The cascade has run from the cluster's end of stream, no interrupt having
\* arrived: the process is TERMINATED with both readers out of their loops.
C11_Witness ==
  /\ Terminated /\ sigPc = "wait"
  /\ pc = "done" /\ consolePc = "done" /\ radioPc = "done"

\* The cluster reader is inside a registry operation: between the lookup of
\* addSpot or removeSpot and the write that ends it.
InRegistryOp == pc \in {"rpcSet", "rpcAdd", "rpcRemove"}

\* C12: in every interleaving of the flows, a step that changes the registry
\* is a step of the cluster reader, and a step of the radio drive flow, the
\* console reader, the interrupt watcher or main leaves it as it is; so the
\* entry the reader looked up is still the registry's when its write comes.
C12_SingleWriter ==
  /\ [][/\ spotIds' # spotIds =>
             (pc \in {"send", "rpcSet", "rpcAdd", "rpcRemove", "cleanup"} /\ pc' # pc)
        /\ <<radioPc, consolePc, sigPc, mainPc, wg, fcClosed, tcClosed, rlClosed>>'
             # <<radioPc, consolePc, sigPc, mainPc, wg, fcClosed, tcClosed, rlClosed>>
             => (spotIds' = spotIds \/ pc' = "done")]_vars
  /\ [](InRegistryOp =>
          IF lineKey \in DOMAIN spotIds
          THEN spotIds[lineKey] = sp /\ (pc = "rpcAdd" => existed)
          ELSE pc = "rpcAdd" /\ ~existed)

\* The interrupt watcher and the radio drive flow have acted while the
\* cluster reader is between its lookup of an entry and its write.
C12_Witness ==
  /\ pc = "rpcSet" /\ lineKey \in DOMAIN spotIds
  /\ sigPc = "done" /\ radioPc = "closeRl" /\ tcClosed

\* The edges at or below freq (in tenths of a kHz), as indices of bandEdges.
EdgesUpTo(freq) == {i \in 1..Len(bandEdges) : 10 * bandEdges[i].minFreq <= freq}

\* C13: getBand(f) is the label of the edge with the greatest minFreq <= f:
\* at an edge value that edge's label, just below it the previous edge's;
\* and 'LFMF' for f at or below the first edge, 0 and negative f included.
C13_GreatestEdgeAtOrBelow ==
  bandCall # NoCall =>
    LET freq == bandCall.freq
        up   == EdgesUpTo(freq)
    IN  /\ up # {} =>
             \E i \in up :
               /\ \A j \in up : bandEdges[j].minFreq <= bandEdges[i].minFreq
               /\ bandCall.name = bandEdges[i].name
        /\ freq <= 10 * bandEdges[1].minFreq => bandCall.name = "LFMF"
        /\ \A i \in 2..Len(bandEdges) :
             /\ freq = 10 * bandEdges[i].minFreq => bandCall.name = bandEdges[i].name
             /\ freq = 10 * bandEdges[i].minFreq - 1 => bandCall.name = bandEdges[i - 1].name

\* getBand has been called a tenth of a kHz below the 12m edge, 24890 kHz,
\* and has answered with the band before it.
C13_Witness ==
  /\ bandCall.freq = 10 * bandEdges[10].minFreq - 1
  /\ bandCall.name = "15m"

\* The scope the claim gives each line of KeyLines: the band, or the kHz.
Scope(line) ==
  IF cfg.OnePerBand THEN "20m"
  ELSE IF line = LineCQ30 THEN "14030" ELSE "14025"

\* The registry's keys that have the scope and the dx callsign of line.
SameKey(line) ==
  {k \in DOMAIN spotIds : k.freq = Scope(line) /\ k.call = line.dx}

\* C14: with one-per-band on the key is (band, dx callsign), so W1XYZ's
\* spots at 14025.0, 14025.4 and 14030.0 share the key ("20m", W1XYZ) and a
\* later one sends 'spot set' with the stored id; with it off the key is
\* (frequency rounded to the kHz, dx callsign), so 14025.0 and 14030.0 have
\* the keys "14025" and "14030", and each has its own 'spot add'.
C14_KeyScope ==
  /\ [](\A k \in DOMAIN spotIds :
          /\ k.call = W1XYZ
          /\ k.freq \in (IF cfg.OnePerBand THEN {"20m"} ELSE {"14025", "14030"}))
  /\ [](\A i \in 1..Len(lineRpcs) :
          lineRpcs[i].key = [freq |-> Scope(m), call |-> W1XYZ])
  /\ [][(pc = "send" /\ pc' # "send" /\ Parsed /\ ~remove) =>
          IF SameKey(m) # {}
          THEN /\ pc' = "rpcSet"
               /\ \A k \in SameKey(m) : sp'.id = spotIds[k].id
          ELSE pc' = "rpcAdd"]_vars
  /\ [][(pc = "rpcSet" /\ lineLog' # lineLog) =>
          /\ Last(lineLog).op = "echo"
          /\ Rpcs(lineLog')[1].op = "set" /\ Rpcs(lineLog')[1].id = sp.id]_vars
  /\ [][(pc = "rpcAdd" /\ ~existed /\ lineLog' # lineLog) =>
          /\ Len(Rpcs(lineLog')) = 1 /\ Rpcs(lineLog')[1].op = "add"]_vars

\* One-per-band off: the spot at 14030.0 has had its own 'spot add' while the
\* entry of the spot at 14025.0 is there, and the two entries hold two ids.
C14_Witness ==
  /\ ~cfg.OnePerBand /\ pc = "cleanup" /\ m = LineCQ30
  /\ Len(lineRpcs) = 1 /\ lineRpcs[1].op = "add" /\ IsOk(lineRpcs[1].res)
  /\ DOMAIN spotIds = {[freq |-> "14025", call |-> W1XYZ],
                       [freq |-> "14030", call |-> W1XYZ]}
  /\ spotIds[[freq |-> "14025", call |-> W1XYZ]].id
       # spotIds[[freq |-> "14030", call |-> W1XYZ]].id

\* The words of s: its maximal runs of word characters, as index pairs.
Words(s) ==
  {w \in (1..Len(s)) \X (1..Len(s)) :
     /\ w[1] <= w[2]
     /\ \A i \in w[1]..w[2] : s[i] \in WordChars
     /\ (w[1] = 1 \/ s[w[1] - 1] \notin WordChars)
     /\ (w[2] = Len(s) \/ s[w[2] + 1] \notin WordChars)}

Upper(c) == CASE c = "q" -> "Q" [] c = "r" -> "R" [] c = "t" -> "T" [] OTHER -> c

\* s holds the word QRT, in either case.
HasWordQRT(s) ==
  \E w \in Words(s) :
    [i \in 1..(w[2] - w[1] + 1) |-> Upper(s[w[1] + i - 1])] = <<"Q", "R", "T">>

\* C15: the line in hand is flagged a removal request exactly when cfg.QRT is
\* set and its comment holds QRT as a whole word in either case: "QRT" and
\* "qrt" are flagged, "QRTY" and "SQRT" are not; with cfg.QRT off none is.
C15_QrtDetection ==
  m # NoLine =>
    /\ remove = (cfg.QRT /\ HasWordQRT(m.comment))
    /\ m \in {LineQRT, LineLower} => remove = cfg.QRT
    /\ m \in {LineQRTY, LineSQRT} => ~remove
    /\ ~cfg.QRT => ~remove

\* The spot with the comment "qrt" has been handled as a removal.
C15_Witness ==
  /\ cfg.QRT /\ m = LineLower /\ remove /\ pc = "cleanup"
  /\ Len(lineRpcs) = 1 /\ lineRpcs[1].op = "remove"

\* The cluster reader takes the step that ends sendToFlex's lookup for a spot
\* that is no removal.
LookupStep == pc = "send" /\ pc' # "send" /\ Parsed /\ ~remove

\* C16 as stated: a spot whose key has an entry that expired before now,
\* swept or not, is handled as an unseen key: 'spot add', and no 'spot set'
\* with the expired entry's id.
C16_ExpiredIsUnseen ==
  [][(LookupStep /\ lineKey \in DOMAIN spotIds /\ spotIds[lineKey].expires < now)
       => pc' = "rpcAdd"]_vars

\* C16, amended: a spot is answered by 'spot set' with the stored id exactly
\* when its key has an entry at the lookup, whether or not that entry's
\* expires has passed (an expired entry stays until the sweep that ends a
\* line); only a key with no entry, a swept one included, is handled as
\* unseen, by 'spot add'.  After the 'spot set', a 'spot add' follows exactly
\* when the radio answered spot-not-found.
C16_RefreshWhilePresent ==
  /\ [][LookupStep =>
          IF lineKey \in DOMAIN spotIds
          THEN pc' = "rpcSet" /\ sp' = spotIds[lineKey]
          ELSE pc' = "rpcAdd" /\ ~existed']_vars
  /\ [][(pc = "rpcSet" /\ lineLog' # lineLog) =>
          /\ Len(Rpcs(lineLog')) = 1
          /\ Rpcs(lineLog')[1].op = "set" /\ Rpcs(lineLog')[1].id = sp.id
          /\ pc' = "rpcAdd" <=> Rpcs(lineLog')[1].res = NotFound]_vars
  /\ [][(pc = "cleanup" /\ pc' = "scan") =>
          DOMAIN spotIds' = {k \in DOMAIN spotIds : spotIds[k].expires >= now}]_vars

\* The lookup has found the key's entry, expired and not yet swept, and the
\* reader is about to send 'spot set' with its id.
C16_Witness ==
  /\ pc = "rpcSet" /\ Parsed /\ ~remove /\ existed
  /\ lineKey \in DOMAIN spotIds /\ spotIds[lineKey] = sp
  /\ sp.expires < now

\* The cluster reader takes its cleanupSpots step.
SweepStep == pc = "cleanup" /\ pc' = "scan"

\* C17 as stated: cleanupSpots removes every entry whose expires is at or
\* before the time it runs at, one whose expires equals that time included.
C17_SweepAtOrBefore ==
  [][SweepStep =>
       \A k \in DOMAIN spotIds :
         spotIds[k].expires <= now => k \notin DOMAIN spotIds']_vars

\* C17, amended: cleanupSpots removes the entries whose expires is strictly
\* before the time it runs at; an entry whose expires equals that time is
\* kept, as it was.
C17_SweepStrictlyBefore ==
  [][SweepStep =>
       \A k \in DOMAIN spotIds :
         /\ spotIds[k].expires < now => k \notin DOMAIN spotIds'
         /\ spotIds[k].expires = now =>
              (k \in DOMAIN spotIds' /\ spotIds'[k] = spotIds[k])]_vars

\* A sweep has run at the very time another key's entry expires and has kept
\* it: the line in hand stored its own entry at now (so the sweep ran at
\* now), and the other entry's expires is now.
C17_Witness ==
  /\ pc = "scan" /\ lineLog # <<>> /\ Last(lineLog).op = "sweep"
  /\ \E i \in 1..Len(lineLog) : lineLog[i].op = "store"
  /\ lineKey \in DOMAIN spotIds /\ spotIds[lineKey].expires = now + Timeout
  /\ \E k \in DOMAIN spotIds : k # lineKey /\ spotIds[k].expires = now

\* C18: cleanupSpots sends no command (the line's commands, the radio's spots
\* and its next id are as before the sweep), and every entry whose expires is
\* after the time it runs at is left with its id and its expires.
C18_SweepLocalOnly ==
  [][SweepStep =>
       /\ Rpcs(lineLog') = Rpcs(lineLog)
       /\ radio' = radio /\ nextId' = nextId
       /\ \A k \in DOMAIN spotIds :
            spotIds[k].expires > now =>
              (k \in DOMAIN spotIds' /\ spotIds'[k] = spotIds[k])]_vars

\* A sweep has deleted one entry and left another, which expires later.
C18_Witness ==
  /\ pc = "scan" /\ lineLog # <<>> /\ Last(lineLog).op = "sweep"
  /\ Last(lineLog).gone # {}
  /\ \E k \in DOMAIN spotIds : spotIds[k].expires > now

\* The place of a step within the handling of one line: the echo, the
\* commands ('spot set' before 'spot add'), the registry write, the sweep.
StepRank(op) ==
  CASE op = "echo" -> 1
    [] op = "set" -> 2
    [] op \in {"add", "remove"} -> 3
    [] op \in {"store", "delete"} -> 4
    [] op = "sweep" -> 5

\* C19: one sequential worker handles the lines.  What is done for a line
\* comes in the order echo, commands with their answers, registry write,
\* sweep, each at most once; a spot whose frequency parsed starts with its
\* echo; while the line is in hand no sweep has run, and once the reader is
\* back at lines.Scan() the sweep has; the next line is taken (and the log of
\* the line in hand dropped) only at lines.Scan(), so no command for the next
\* line is sent before the write and the sweep of this one.
C19_SequentialOrder ==
  /\ [](\A i, j \in 1..Len(lineLog) :
          i < j => StepRank(lineLog[i].op) < StepRank(lineLog[j].op))
  /\ []((Parsed /\ pc # "done") => (lineLog # <<>> /\ lineLog[1].op = "echo"))
  /\ [](pc \in {"send", "rpcSet", "rpcAdd", "rpcRemove", "cleanup"} =>
          (m # NoLine /\ \A i \in 1..Len(lineLog) : lineLog[i].op # "sweep"))
  /\ []((pc = "scan" /\ m # NoLine) => Last(lineLog).op = "sweep")
  /\ [][(m' # m \/ Len(lineLog') < Len(lineLog)) => pc = "scan"]_vars
  /\ [][Len(Rpcs(lineLog')) > Len(lineRpcs) =>
          (pc \in {"rpcSet", "rpcAdd", "rpcRemove"} /\ m' = m)]_vars

\* A line has been handled in full: echo, 'spot set' answered not-found,
\* 'spot add', the registry write, the sweep; the reader is back at Scan().
C19_Witness ==
  /\ pc = "scan" /\ Len(lineLog) = 5
  /\ lineLog[1].op = "echo" /\ lineLog[2].op = "set" /\ lineLog[3].op = "add"
  /\ lineLog[4].op = "store" /\ lineLog[5].op = "sweep"

\* The line in hand is a removal request and sendToFlex is at work on it.
Removing == Parsed /\ remove /\ pc \in {"send", "rpcRemove"}

\* C20: for a removal request sendToFlex sends no 'spot add' and no 'spot
\* set', and no step of it creates an entry or changes one (it can only
\* delete); when the key has no entry it sends no command at all and leaves
\* the registry as it was.
C20_RemovalOnly ==
  /\ []((Parsed /\ remove) => \A i \in 1..Len(lineRpcs) : lineRpcs[i].op = "remove")
  /\ [][Removing =>
          /\ \A k \in DOMAIN spotIds' :
               k \in DOMAIN spotIds /\ spotIds'[k] = spotIds[k]
          /\ pc' \in {"send", "rpcRemove", "cleanup"}]_vars
  /\ [][(Removing /\ pc = "send" /\ pc' # "send" /\ lineKey \notin DOMAIN spotIds) =>
          /\ pc' = "cleanup"
          /\ Rpcs(lineLog') = <<>>
          /\ spotIds' = spotIds]_vars

\* sendToFlex has handled a removal request for a key with no entry: no
\* command was sent, and another key's entry is still in the registry.
C20_Witness ==
  /\ pc = "cleanup" /\ Parsed /\ remove
  /\ lineRpcs = <<>> /\ Last(lineLog).op = "delete"
  /\ lineKey \notin DOMAIN spotIds /\ DOMAIN spotIds # {}

====
